---- MODULE Spec2Model ----
(***************************************************************************)
(* Supervision core of ai-data-science-team: the error handler             *)
(* (supervisors/error_handler.py) and the buffered log publisher           *)
(* (supervisors/logging_system.py), with the supervisor's shutdown         *)
(* (supervisors/supervisor_agent.py).                                      *)
(*                                                                         *)
(* The code is asyncio code: coroutines run on one event loop and are      *)
(* interleaved only where a coroutine really suspends (an awaited          *)
(* recovery procedure, an awaited Elasticsearch call, a sleep).  Awaiting  *)
(* a coroutine that does not suspend runs it inline.  Each action below    *)
(* is one such run between two suspension points.                          *)
(*                                                                         *)
(* Python dicts are functions whose DOMAIN is the set of keys present.     *)
(* Text written through the logging module is not part of the state.      *)
(***************************************************************************)
EXTENDS Integers, Sequences, FiniteSets, TLC

(***************************************************************************)
(* Bounds of the model.                                                    *)
(***************************************************************************)
MaxTime == 300          \* the clock stops advancing here
MaxReports == 2         \* handle_error calls made in one run
NumWorkers == 2         \* coroutines calling handle_error / log concurrently
MaxPublish == 3         \* log() calls made in one run

Workers == 1..NumWorkers

(***************************************************************************)
(* Error kinds are exception class names, kept as character sequences so   *)
(* that the classification can work on the letters as the code does.       *)
(***************************************************************************)
CriticalError == <<"C","r","i","t","i","c","a","l","E","r","r","o","r">>
Timeout == <<"T","i","m","e","o","u","t">>

Kinds == {CriticalError, Timeout}

Procs == {"p1", "p2"}

\* Clock advances offered to the model: just under and exactly one cooldown.
TickSteps == {299, 300}

(***************************************************************************)
(* dict helpers                                                            *)
(***************************************************************************)
Get(d, k, default) == IF k \in DOMAIN d THEN d[k] ELSE default

Put(d, k, v) == [x \in (DOMAIN d) \cup {k} |-> IF x = k THEN v ELSE d[x]]

EmptyDict == <<>>

(***************************************************************************)
(* str.lower() and the `in` substring test                                 *)
(***************************************************************************)
UpperCase == <<"A","B","C","D","E","F","G","H","I","J","K","L","M",
               "N","O","P","Q","R","S","T","U","V","W","X","Y","Z">>

LowerCase == <<"a","b","c","d","e","f","g","h","i","j","k","l","m",
               "n","o","p","q","r","s","t","u","v","w","x","y","z">>

LowerChar(c) ==
    IF \E i \in 1..26 : UpperCase[i] = c
    THEN LowerCase[CHOOSE i \in 1..26 : UpperCase[i] = c]
    ELSE c

Lower(s) == [i \in 1..Len(s) |-> LowerChar(s[i])]

Contains(sub, s) ==
    \E i \in 0..(Len(s) - Len(sub)) : SubSeq(s, i + 1, i + Len(sub)) = sub

(***************************************************************************)
(* ErrorHandler.__init__: error_thresholds                                 *)
(***************************************************************************)
error_thresholds ==
    [critical |-> 1, error |-> 5, warning |-> 10]

\* Seconds between two recovery attempts of one kind (_should_attempt_recovery).
Cooldown == 300

\* LoggingSystem.__init__: buffer_size
buffer_size == 100

VARIABLES
    now,                  \* datetime.now(), in seconds
    error_counts,         \* ErrorHandler.error_counts: dict kind -> int
    recovery_procedures,  \* ErrorHandler.recovery_procedures: dict kind -> procedure
    registered,           \* history: per kind, the procedure of the latest registration call
    active_recoveries,    \* ErrorHandler.active_recoveries: dict kind -> datetime
    call,                 \* per worker: its handle_error call (position, kind, procedure awaited)
    last,                 \* the handle_error call that returned last: what it did and returned
    reports,              \* workload: reports made in this run
    occurrences,          \* history: reports made so far, per kind
    invocations,          \* history: start times of the procedure invocations, per kind
    log_buffer,           \* LoggingSystem.log_buffer: list of entries (entry ids)
    es_open,              \* LoggingSystem.es_client is connected (not yet closed)
    pub,                  \* per worker: its log() call (position, bulk body being sent)
    timer,                \* the _process_log_buffer loop (position, bulk body being sent)
    shut,                 \* LoggingSystem.shutdown() (position, bulk body being sent)
    sup,                  \* SupervisorAgent.shutdown(): "running", "returned" or "raised"
    db_open,              \* the supervisor's database connections are open
    logged,               \* history: entries appended so far (the last entry id)
    publishes,            \* workload: log() calls made in this run
    es_bulks,             \* history: bulk bodies the remote sink accepted, in order
    backup_file,          \* contents of logs/elasticsearch_backup.log (entry ids)
    backup_failed,        \* history: some write to the backup file has failed
    agent_health,         \* SupervisorAgent.agent_health: dict agent -> health entry
    started,              \* SupervisorAgent.start(): "constructed", "monitoring" or "failed"
    health_wake,          \* the time at which _monitor_agent_health's sleep ends
    handled,              \* history: per agent, _handle_agent_failure calls since its last heartbeat
    checks,               \* workload: iterations of _monitor_agent_health in this run
    heartbeats,           \* workload: heartbeats received in this run
    loops,                \* per monitoring loop: "sleeping", "waiting" (in an awaited call) or "exited"
    ran,                  \* the loop iteration that finished last: what it did and how long it sleeps
    resource_limits,      \* config['resource_limits'] (RESOURCE_LIMITS, set from the environment)
    files,                \* the log directory: dict index -> file; 0 is x.log, i is x.log.i
    indices,              \* creation dates of the remote log indices
    writes,               \* workload: writes to the live log file in this run
    retry                 \* a call of a function wrapped by utils.decorators.retry

ehvars == <<now, error_counts, recovery_procedures, registered, active_recoveries,
            call, last, reports, occurrences, invocations>>

logvars == <<log_buffer, es_open, pub, timer, shut, sup, db_open, logged,
             publishes, es_bulks, backup_file, backup_failed>>

healthvars == <<agent_health, started, health_wake, handled, checks, heartbeats>>

loopvars == <<loops, ran, resource_limits>>

rotvars == <<files, indices, writes>>

utilvars == <<retry>>

supvars == <<healthvars, loopvars, rotvars, utilvars>>

vars == <<now, error_counts, recovery_procedures, registered, active_recoveries,
          call, last, reports, occurrences, invocations,
          log_buffer, es_open, pub, timer, shut, sup, db_open, logged,
          publishes, es_bulks, backup_file, backup_failed, supvars>>

IdleCall == [pc |-> "idle", kind |-> <<>>, proc |-> "none"]

NoReturn ==
    [kind |-> <<>>, attempted |-> FALSE, outcome |-> "none",
     evaluated |-> FALSE, escalated |-> FALSE, ret |-> "none"]

(***************************************************************************)
(* ErrorHandler._should_attempt_recovery, on the given dicts and clock     *)
(***************************************************************************)
ShouldAttemptRecovery_NoCooldown(procs, active, t, k) ==
    IF k \notin DOMAIN procs THEN FALSE ELSE TRUE

ShouldAttemptRecovery_Unregistered(procs, active, t, k) ==
    IF k \in DOMAIN active /\ t - active[k] < Cooldown THEN FALSE ELSE TRUE

ShouldAttemptRecovery(procs, active, t, k) ==
    IF k \notin DOMAIN procs
    THEN FALSE
    ELSE IF k \in DOMAIN active /\ t - active[k] < Cooldown
         THEN FALSE
         ELSE TRUE

(***************************************************************************)
(* ErrorHandler._should_escalate                                           *)
(***************************************************************************)
Severity_ErrorFirst(k) ==
    IF Contains(<<"e","r","r","o","r">>, Lower(k)) THEN "error"
    ELSE IF Contains(<<"c","r","i","t","i","c","a","l">>, Lower(k)) THEN "critical"
    ELSE "warning"

Severity(k) ==
    IF Contains(<<"c","r","i","t","i","c","a","l">>, Lower(k)) THEN "critical"
    ELSE IF Contains(<<"e","r","r","o","r">>, Lower(k)) THEN "error"
    ELSE "warning"

Threshold(k) == error_thresholds[Severity(k)]

ShouldEscalate_Strict(counts, k) == Get(counts, k, 0) > Threshold(k)

ShouldEscalate(counts, k) == Get(counts, k, 0) >= Threshold(k)

(***************************************************************************)
(* ErrorHandler._attempt_recovery after the procedure has come back: what  *)
(* it gives back for each outcome of the procedure ("raised" if it let an  *)
(* exception out), and whether it resets the count.                        *)
(***************************************************************************)
Outcomes == {"success", "failure", "raise"}

RecoveryResult_RaiseAsSuccess(outcome) ==
    IF outcome \in {"success", "raise"} THEN "True" ELSE "False"

RecoveryResult(outcome) ==
    IF outcome = "success" THEN "True" ELSE "False"

RecoveryResets_Never(outcome) == FALSE

RecoveryResets(outcome) == outcome = "success"

(***************************************************************************)
(* ErrorHandler.handle_error's own except clause: whatever is raised       *)
(* below it becomes the return value False.                                *)
(***************************************************************************)
HandleErrorResult_AlwaysTrue(r) == "True"

HandleErrorResult(r) == IF r = "raised" THEN "False" ELSE r

InitialCount(k) == Threshold(k) - 1

(***************************************************************************)
(* ErrorHandler.register_recovery_procedure: the dict after the call       *)
(***************************************************************************)
Register_KeepFirst(procs, k, p) == IF k \in DOMAIN procs THEN procs ELSE Put(procs, k, p)

Register(procs, k, p) == Put(procs, k, p)

(***************************************************************************)
(* Initial state: ErrorHandler.__init__, or a handler that has already     *)
(* counted some reports of one kind (none recovered, none cleared).        *)
(***************************************************************************)
InitErrorHandler ==
    /\ now = 0
    /\ recovery_procedures = EmptyDict
    /\ registered = [k \in Kinds |-> "none"]
    /\ active_recoveries = EmptyDict
    /\ call = [w \in Workers |-> IdleCall]
    /\ last = NoReturn
    /\ invocations = [k \in Kinds |-> <<>>]
    /\ reports = 0
    /\ \/ /\ error_counts = EmptyDict
          /\ occurrences = [k \in Kinds |-> 0]
       \/ \E k \in Kinds :
             /\ InitialCount(k) > 0
             /\ error_counts = Put(EmptyDict, k, InitialCount(k))
             /\ occurrences = [x \in Kinds |-> IF x = k THEN InitialCount(k) ELSE 0]

(***************************************************************************)
(* LoggingSystem.__init__ and SupervisorAgent.__init__, after start() has  *)
(* connected the sinks: nothing buffered, nothing in flight.               *)
(***************************************************************************)
Idle == [pc |-> "idle", actions |-> <<>>]

LoggingStarted ==
    /\ es_open = TRUE
    /\ pub = [w \in Workers |-> Idle]
    /\ timer = [pc |-> "sleep", actions |-> <<>>]
    /\ shut = Idle
    /\ sup = "running"
    /\ db_open = TRUE
    /\ publishes = 0
    /\ es_bulks = <<>>
    /\ backup_file = <<>>
    /\ backup_failed = FALSE

(***************************************************************************)
(* The monitoring loops of SupervisorAgent, SystemMonitor and              *)
(* LoggingSystem: `while True: try: <iteration>; sleep(interval)           *)
(* except Exception: <log>; sleep(backoff)`.                               *)
(***************************************************************************)
LoopNames ==
    {"agent_health", "system_resources", "data_pipeline", "performance",
     "system_metrics", "push_metrics", "monitor_log_files", "cleanup_old_logs"}

\* The sleep that ends an iteration which raised nothing
Interval(l) ==
    CASE l = "agent_health" -> 30
      [] l = "system_resources" -> 60
      [] l = "data_pipeline" -> 300
      [] l = "performance" -> 300
      [] l = "system_metrics" -> 15
      [] l = "push_metrics" -> 60
      [] l = "monitor_log_files" -> 300
      [] l = "cleanup_old_logs" -> 86400

\* The sleep in the loop's own except clause
LoopBackoff_Interval(l) == Interval(l)

LoopBackoff(l) == IF l = "cleanup_old_logs" THEN 3600 ELSE 5

\* Where a loop stands after an iteration.  `failure` is "none", "loop" (an
\* exception reached the loop's except clause) or "helper" (an exception was
\* caught and logged inside a method the iteration called).
AfterIteration_NoHandler(failure) == IF failure = "loop" THEN "exited" ELSE "sleeping"

AfterIteration(failure) == "sleeping"

NoRun ==
    [loop |-> "none", failure |-> "none", logged |-> FALSE, slept |-> 0,
     metrics |-> {}, warnings |-> {}, deleted |-> <<>>,
     handling |-> <<>>, hook_failed |-> {}]

\* The record of an iteration of loop l that ended in `failure`
Ran(l, failure) ==
    [NoRun EXCEPT !.loop = l,
                  !.failure = failure,
                  !.logged = (failure # "none"),
                  !.slept = IF failure = "loop" THEN LoopBackoff(l) ELSE Interval(l)]

\* config.settings.RESOURCE_LIMITS with no environment variable set
RESOURCE_LIMITS ==
    [max_memory_usage |-> 4096, max_cpu_usage |-> 80, max_storage_usage |-> 10240]

\* A file that exists and holds nothing
EmptyFile == [content |-> 0, size |-> 0]

\* No wrapped function has been called yet.
NotCalled ==
    [pc |-> "idle", max_retries |-> 0, delay |-> 0, attempt |-> 0,
     calls |-> <<>>, slept |-> 0, result |-> [kind |-> "none", call |-> 0]]

NoWrapperCalled == retry = NotCalled

(***************************************************************************)
(* SupervisorAgent.__init__: no health entries yet, no loop started.       *)
(***************************************************************************)
SupervisorConstructed ==
    /\ agent_health = EmptyDict
    /\ started = "constructed"
    /\ health_wake = 0
    /\ handled = EmptyDict
    /\ checks = 0
    /\ heartbeats = 0
    /\ loops = [l \in LoopNames |-> "sleeping"]
    /\ ran = NoRun
    /\ resource_limits = RESOURCE_LIMITS

\* A log directory with a new, empty x.log, and no remote index yet
LogDirCreated ==
    /\ files = Put(EmptyDict, 0, EmptyFile)
    /\ indices = {}
    /\ writes = 0

Init ==
    /\ InitErrorHandler
    /\ LoggingStarted
    /\ NoWrapperCalled
    /\ SupervisorConstructed
    /\ LogDirCreated
    /\ log_buffer = <<>>
    /\ logged = 0

(***************************************************************************)
(* ErrorHandler.handle_error, from its entry to its return or to the       *)
(* point where it is suspended in the recovery procedure.                  *)
(***************************************************************************)
HandleError(w, k) ==
    /\ call[w].pc = "idle"
    /\ reports < MaxReports
    /\ reports' = reports + 1
    /\ occurrences' = [occurrences EXCEPT ![k] = @ + 1]
    /\ LET counted == Put(error_counts, k, Get(error_counts, k, 0) + 1)
       IN  /\ error_counts' = counted
           /\ IF ShouldAttemptRecovery(recovery_procedures, active_recoveries, now, k)
              THEN IF k \in DOMAIN recovery_procedures
                   THEN /\ active_recoveries' = Put(active_recoveries, k, now)
                        /\ invocations' = [invocations EXCEPT ![k] = Append(@, now)]
                        /\ call' = [call EXCEPT ![w] =
                                      [pc |-> "recovering", kind |-> k,
                                       proc |-> recovery_procedures[k]]]
                        /\ UNCHANGED last
                   ELSE /\ last' = [NoReturn EXCEPT !.kind = k,
                                       !.attempted = TRUE,
                                       !.ret = HandleErrorResult("False")]
                        /\ UNCHANGED <<active_recoveries, invocations, call>>
              ELSE /\ last' = [NoReturn EXCEPT !.kind = k,
                                  !.evaluated = TRUE,
                                  !.escalated = ShouldEscalate(counted, k),
                                  !.ret = HandleErrorResult("True")]
                   /\ UNCHANGED <<active_recoveries, invocations, call>>
    /\ UNCHANGED <<now, recovery_procedures, registered>>
    /\ UNCHANGED <<logvars, supvars>>

(***************************************************************************)
(* The awaited recovery procedure comes back (returns truthy, returns      *)
(* falsy, or raises) and handle_error returns.                             *)
(***************************************************************************)
RecoveryReturn(w, outcome) ==
    /\ call[w].pc = "recovering"
    /\ LET k == call[w].kind
       IN  /\ error_counts' = IF RecoveryResets(outcome)
                              THEN Put(error_counts, k, 0)
                              ELSE error_counts
           /\ last' = [NoReturn EXCEPT !.kind = k,
                          !.attempted = TRUE,
                          !.outcome = outcome,
                          !.ret = HandleErrorResult(RecoveryResult(outcome))]
    /\ call' = [call EXCEPT ![w] = IdleCall]
    /\ UNCHANGED <<now, recovery_procedures, registered, active_recoveries,
                   reports, occurrences, invocations>>
    /\ UNCHANGED <<logvars, supvars>>

(***************************************************************************)
(* ErrorHandler.register_recovery_procedure                                *)
(***************************************************************************)
RegisterRecoveryProcedure(k, p) ==
    /\ Get(recovery_procedures, k, "none") # p
    /\ recovery_procedures' = Register(recovery_procedures, k, p)
    /\ registered' = [registered EXCEPT ![k] = p]
    /\ UNCHANGED <<now, error_counts, active_recoveries, call, last, reports,
                   occurrences, invocations>>
    /\ UNCHANGED <<logvars, supvars>>

(***************************************************************************)
(* One iteration of ErrorHandler.monitor_error_patterns.  Spikes are only  *)
(* logged; in the minute after midnight the counts are cleared.            *)
(***************************************************************************)
MonitorErrorPatterns(midnight) ==
    /\ error_counts' = IF midnight THEN EmptyDict ELSE error_counts
    /\ UNCHANGED <<now, recovery_procedures, registered, active_recoveries, call,
                   last, reports, occurrences, invocations>>
    /\ UNCHANGED <<logvars, supvars>>

(***************************************************************************)
(* The wall clock advances.                                                *)
(***************************************************************************)
Tick(d) ==
    /\ now + d <= MaxTime
    /\ now' = now + d
    /\ UNCHANGED <<error_counts, recovery_procedures, registered, active_recoveries,
                   call, last, reports, occurrences, invocations>>
    /\ UNCHANGED <<logvars, supvars>>

Next ==
    \/ \E w \in Workers, k \in Kinds : HandleError(w, k)
    \/ \E w \in Workers, o \in Outcomes : RecoveryReturn(w, o)
    \/ \E k \in Kinds, p \in Procs : RegisterRecoveryProcedure(k, p)
    \/ \E m \in BOOLEAN : MonitorErrorPatterns(m)
    \/ \E d \in TickSteps : Tick(d)

Spec == Init /\ [][Next]_vars

(***************************************************************************)
(* _should_escalate on its own: class names in several letter cases, with  *)
(* and without the words the classification looks for, and counts just     *)
(* below and at each class threshold.                                      *)
(***************************************************************************)
KindNames ==
    {CriticalError,
     <<"C","R","I","T","I","C","A","L">>,
     <<"S","y","s","t","e","m","C","r","i","t","i","c","a","l","F","a","i","l","u","r","e">>,
     <<"E","r","r","o","r","C","r","i","t","i","c","a","l">>,
     <<"c","r","i","t","i","c","a","l","e","r","r","o","r">>,
     <<"I","O","E","R","R","O","R">>,
     <<"V","a","l","u","e","E","r","r","o","r">>,
     <<"m","y","_","e","r","r","o","r">>,
     <<"T","i","m","e","o","u","t">>,
     <<"C","r","i","t","i","c","a">>,
     <<"E","r","r","o">>,
     <<"W","a","r","n","i","n","g">>}

CountChoices ==
    UNION {{error_thresholds[c] - 1, error_thresholds[c]} : c \in DOMAIN error_thresholds}

InitSeverity ==
    /\ now = 0
    /\ recovery_procedures = EmptyDict
    /\ registered = [k \in Kinds |-> "none"]
    /\ active_recoveries = EmptyDict
    /\ call = [w \in Workers |-> IdleCall]
    /\ last = NoReturn
    /\ invocations = [k \in Kinds |-> <<>>]
    /\ reports = 0
    /\ occurrences = [k \in Kinds |-> 0]
    /\ \E name \in KindNames, count \in CountChoices :
          error_counts = Put(EmptyDict, name, count)
    /\ LoggingStarted
    /\ NoWrapperCalled
    /\ SupervisorConstructed
    /\ LogDirCreated
    /\ log_buffer = <<>>
    /\ logged = 0

\* self._should_escalate(error_type): reads the count, changes nothing
ShouldEscalateCall(name) ==
    /\ last' = [NoReturn EXCEPT !.kind = name,
                                !.evaluated = TRUE,
                                !.escalated = ShouldEscalate(error_counts, name)]
    /\ UNCHANGED <<now, error_counts, recovery_procedures, registered,
                   active_recoveries, call, reports, occurrences, invocations>>
    /\ UNCHANGED <<logvars, supvars>>

NextSeverity == \E name \in KindNames : ShouldEscalateCall(name)

SpecSeverity == InitSeverity /\ [][NextSeverity]_vars

(***************************************************************************)
(* LoggingSystem (supervisors/logging_system.py)                           *)
(*                                                                         *)
(* Entries are numbered in the order log() appends them.  A flush that     *)
(* has sent its bulk request is suspended in `await es_client.bulk`; log() *)
(* calls, the timer loop and shutdown() run while it waits.                *)
(***************************************************************************)
ErrorHandlerConstructed ==
    /\ InitErrorHandler
    /\ error_counts = EmptyDict

\* The publisher starts empty, or holding entries logged since the last flush.
InitialFills == {0, buffer_size - 2}

InitLog ==
    /\ ErrorHandlerConstructed
    /\ LoggingStarted
    /\ NoWrapperCalled
    /\ SupervisorConstructed
    /\ LogDirCreated
    /\ \E n \in InitialFills :
          /\ log_buffer = [i \in 1..n |-> i]
          /\ logged = n

\* LoggingSystem.log: the size test after the append
ShouldFlush_Above(n) == n > buffer_size

ShouldFlush(n) == n >= buffer_size

BulkOutcomes == {"accepted", "raise"}

BackupOutcomes == {"ok", "open_fails", "write_fails"}

(***************************************************************************)
(* LoggingSystem._write_to_backup_file: the file after the call.  The      *)
(* write may fail at open() or at a later f.write(); the exception is      *)
(* logged and swallowed.                                                   *)
(***************************************************************************)
WriteToBackupFile(file, logs, bk) ==
    IF bk = "ok" THEN file \o logs
    ELSE IF bk = "open_fails" THEN file
    ELSE file \o SubSeq(logs, 1, 1)

(***************************************************************************)
(* LoggingSystem._flush_buffer after `await es_client.bulk` has come back, *)
(* for the flush that sent `actions`: lines 154-155, or 156-160.           *)
(***************************************************************************)
FlushCompletes(actions, outcome, bk) ==
    /\ outcome = "accepted" => (es_open /\ bk = "ok")
    /\ bk = "write_fails" => Len(log_buffer) >= 2
    /\ IF outcome = "accepted"
       THEN /\ es_bulks' = Append(es_bulks, actions)
            /\ UNCHANGED <<backup_file, backup_failed>>
       ELSE /\ backup_file' = WriteToBackupFile(backup_file, log_buffer, bk)
            /\ backup_failed' = (backup_failed \/ bk # "ok")
            /\ UNCHANGED es_bulks
    /\ log_buffer' = <<>>

(***************************************************************************)
(* LoggingSystem.log, up to its return or to the bulk request of the       *)
(* flush it starts.                                                        *)
(***************************************************************************)
Log(w) ==
    /\ pub[w].pc = "idle"
    /\ publishes < MaxPublish
    /\ publishes' = publishes + 1
    /\ logged' = logged + 1
    /\ log_buffer' = Append(log_buffer, logged + 1)
    /\ pub' = IF ShouldFlush(Len(log_buffer'))
              THEN [pub EXCEPT ![w] = [pc |-> "bulk", actions |-> log_buffer']]
              ELSE pub
    /\ UNCHANGED <<es_open, timer, shut, sup, db_open, es_bulks, backup_file,
                   backup_failed>>
    /\ UNCHANGED <<ehvars, supvars>>

LogBulkReturn(w, outcome, bk) ==
    /\ pub[w].pc = "bulk"
    /\ FlushCompletes(pub[w].actions, outcome, bk)
    /\ pub' = [pub EXCEPT ![w] = Idle]
    /\ UNCHANGED <<es_open, timer, shut, sup, db_open, logged, publishes>>
    /\ UNCHANGED <<ehvars, supvars>>

(***************************************************************************)
(* LoggingSystem._process_log_buffer: the sleep of flush_interval ends     *)
(* and the loop calls _flush_buffer, which returns at once on an empty     *)
(* buffer.                                                                 *)
(***************************************************************************)
TimerFire ==
    /\ timer.pc = "sleep"
    /\ timer' = IF log_buffer = <<>>
                THEN timer
                ELSE [pc |-> "bulk", actions |-> log_buffer]
    /\ UNCHANGED <<log_buffer, es_open, pub, shut, sup, db_open, logged,
                   publishes, es_bulks, backup_file, backup_failed>>
    /\ UNCHANGED <<ehvars, supvars>>

TimerBulkReturn(outcome, bk) ==
    /\ timer.pc = "bulk"
    /\ FlushCompletes(timer.actions, outcome, bk)
    /\ timer' = [pc |-> "sleep", actions |-> <<>>]
    /\ UNCHANGED <<es_open, pub, shut, sup, db_open, logged, publishes>>
    /\ UNCHANGED <<ehvars, supvars>>

(***************************************************************************)
(* LoggingSystem.shutdown: flush, then close the Elasticsearch client.     *)
(***************************************************************************)
LoggingShutdown ==
    /\ shut.pc = "idle"
    /\ IF log_buffer = <<>>
       THEN /\ shut' = [pc |-> "done", actions |-> <<>>]
            /\ es_open' = FALSE
       ELSE /\ shut' = [pc |-> "bulk", actions |-> log_buffer]
            /\ UNCHANGED es_open
    /\ UNCHANGED <<log_buffer, pub, timer, sup, db_open, logged, publishes,
                   es_bulks, backup_file, backup_failed>>
    /\ UNCHANGED <<ehvars, supvars>>

LoggingShutdownBulkReturn(outcome, bk) ==
    /\ shut.pc = "bulk"
    /\ FlushCompletes(shut.actions, outcome, bk)
    /\ shut' = [pc |-> "done", actions |-> <<>>]
    /\ es_open' = FALSE
    /\ UNCHANGED <<pub, timer, sup, db_open, logged, publishes>>
    /\ UNCHANGED <<ehvars, supvars>>

(***************************************************************************)
(* SupervisorAgent.shutdown: closes the database connections, logs the     *)
(* event and returns, or re-raises what close_connections raised.          *)
(***************************************************************************)
SupervisorShutdown(closed) ==
    /\ sup = "running"
    /\ db_open' = IF closed THEN FALSE ELSE db_open
    /\ sup' = IF closed THEN "returned" ELSE "raised"
    /\ UNCHANGED <<log_buffer, es_open, pub, timer, shut, logged, publishes,
                   es_bulks, backup_file, backup_failed>>
    /\ UNCHANGED <<ehvars, supvars>>

NextLog ==
    \/ \E w \in Workers : Log(w)
    \/ \E w \in Workers, o \in BulkOutcomes, bk \in BackupOutcomes :
          LogBulkReturn(w, o, bk)
    \/ TimerFire
    \/ \E o \in BulkOutcomes, bk \in BackupOutcomes : TimerBulkReturn(o, bk)
    \/ LoggingShutdown
    \/ \E o \in BulkOutcomes, bk \in BackupOutcomes :
          LoggingShutdownBulkReturn(o, bk)
    \/ \E closed \in BOOLEAN : SupervisorShutdown(closed)

SpecLog == InitLog /\ [][NextLog]_vars

(***************************************************************************)
(* SupervisorAgent: the agent-health table and _monitor_agent_health       *)
(* (supervisors/supervisor_agent.py)                                       *)
(*                                                                         *)
(* One iteration of the health loop runs from the end of its sleep to the  *)
(* next asyncio.sleep without suspending: _handle_agent_failure,           *)
(* _recover_agent and the logging helpers never wait.                      *)
(***************************************************************************)
MaxChecks == 5          \* iterations of the health loop in one run
MaxHeartbeats == 2      \* heartbeats received in one run

\* SupervisorAgent.active_agents, in the order of the dict literal
Agents ==
    <<"validation", "data_wrangling", "data_cleaning", "feature_engineering",
      "data_analysis", "ml_modeling", "interpretability">>

AgentNames == {Agents[i] : i \in 1..Len(Agents)}

\* The agents that send heartbeats in a run; the others stay silent.
Heartbeaters == {"validation", "data_cleaning"}

\* Python's None, for last_heartbeat
None == -1

StaleAfter == 60        \* `time_since_heartbeat > 60`
HealthInterval == 30    \* `await asyncio.sleep(30)`
Backoff == 5            \* `await asyncio.sleep(5)` in the except clause
SecondsPerDay == 86400

\* timedelta.seconds: the seconds field of a non-negative timedelta, which
\* leaves out its days
Seconds(delta) == delta % SecondsPerDay

\* The entry _initialize_system stores for each agent
InitialHealth_Active ==
    [status |-> "active", last_heartbeat |-> None, error_count |-> 0,
     performance_metrics |-> EmptyDict]

InitialHealth ==
    [status |-> "inactive", last_heartbeat |-> None, error_count |-> 0,
     performance_metrics |-> EmptyDict]

\* `for agent in self.active_agents.keys(): self.agent_health[agent] = {...}`
RECURSIVE InitHealthEntries(_, _)
InitHealthEntries(health, i) ==
    IF i > Len(Agents) THEN health
    ELSE InitHealthEntries(Put(health, Agents[i], InitialHealth), i + 1)

\* `if health['last_heartbeat']:`
HasHeartbeat_Always(h) == TRUE

HasHeartbeat(h) == h.last_heartbeat # None

\* lines 83-85: the agent is passed to _handle_agent_failure
IsStale(h, t) == HasHeartbeat(h) /\ Seconds(t - h.last_heartbeat) > StaleAfter

\* Position of an agent in the iteration order of agent_health
RECURSIVE IndexOf(_, _)
IndexOf(a, i) == IF Agents[i] = a THEN i ELSE IndexOf(a, i + 1)

\* An iteration that raises does so in log_metric for the agent at position
\* `fault` (0: it does not raise); the agents after it are not reached.
FaultPoints == 0..Len(Agents)

Reached(a, fault) == fault = 0 \/ IndexOf(a, 1) <= fault

ehtables == <<error_counts, recovery_procedures, registered, active_recoveries,
              call, last, reports, occurrences, invocations>>

InitHealth ==
    /\ ErrorHandlerConstructed
    /\ LoggingStarted
    /\ NoWrapperCalled
    /\ SupervisorConstructed
    /\ LogDirCreated
    /\ log_buffer = <<>>
    /\ logged = 0

(***************************************************************************)
(* SupervisorAgent.start up to the first steps of the monitoring loops:    *)
(* _initialize_system raises when a database is unhealthy, before any      *)
(* health entry is stored.                                                 *)
(***************************************************************************)
InitializeSystem(db_ok) ==
    /\ started = "constructed"
    /\ IF db_ok
       THEN /\ agent_health' = InitHealthEntries(agent_health, 1)
            /\ handled' = [a \in AgentNames |-> 0]
            /\ started' = "monitoring"
       ELSE /\ started' = "failed"
            /\ UNCHANGED <<agent_health, handled>>
    /\ health_wake' = now
    /\ UNCHANGED <<checks, heartbeats>>
    /\ UNCHANGED <<now, ehtables, utilvars, logvars, loopvars, rotvars>>

(***************************************************************************)
(* heartbeat(agent_name): the agent becomes active and its last_heartbeat  *)
(* is the time of the call.                                                *)
(***************************************************************************)
Heartbeat(a) ==
    /\ started = "monitoring"
    /\ heartbeats < MaxHeartbeats
    /\ heartbeats' = heartbeats + 1
    /\ agent_health' = [agent_health EXCEPT ![a].status = "active",
                                            ![a].last_heartbeat = now]
    /\ handled' = [handled EXCEPT ![a] = 0]
    /\ UNCHANGED <<started, health_wake, checks>>
    /\ UNCHANGED <<now, ehtables, utilvars, logvars, loopvars, rotvars>>

\* SupervisorAgent._recover_agent: it returns True, or False when its own
\* except clause caught something
RecoverAgent(raised) == IF raised THEN "False" ELSE "True"

\* SupervisorAgent._handle_agent_failure for one agent: what it does, in order
HandleAgentFailure_NeverEscalates(a, recovery_successful) ==
    <<[agent |-> a, did |-> "agent_failure"], [agent |-> a, did |-> "recover_agent"]>>

HandleAgentFailure(a, recovery_successful) ==
    <<[agent |-> a, did |-> "agent_failure"], [agent |-> a, did |-> "recover_agent"]>>
       \o (IF recovery_successful = "False"
           THEN <<[agent |-> a, did |-> "issue_escalation"]>>
           ELSE <<>>)

\* The agents whose recovery fails in an iteration: none, or one of those
\* that send heartbeats
HookFailures == {{}} \cup {{a} : a \in Heartbeaters}

\* `for agent, health in self.agent_health.items()`, from position i on: the
\* failure handling done for the stale agents that are reached
RECURSIVE HandleStaleAgents(_, _, _)
HandleStaleAgents(i, fault, failing) ==
    IF i > Len(Agents) \/ (fault # 0 /\ i > fault) THEN <<>>
    ELSE (IF IsStale(agent_health[Agents[i]], now)
          THEN HandleAgentFailure(Agents[i], RecoverAgent(Agents[i] \in failing))
          ELSE <<>>) \o HandleStaleAgents(i + 1, fault, failing)

(***************************************************************************)
(* One iteration of _monitor_agent_health.  _handle_agent_failure logs,    *)
(* calls _recover_agent and escalates if that returned False; it changes   *)
(* no health entry and catches what it raises.                             *)
(***************************************************************************)
MonitorAgentHealth(fault) ==
    /\ started = "monitoring"
    /\ loops["agent_health"] = "sleeping"
    /\ now >= health_wake
    /\ checks < MaxChecks
    /\ checks' = checks + 1
    /\ handled' = [a \in AgentNames |->
                     IF Reached(a, fault) /\ IsStale(agent_health[a], now)
                     THEN handled[a] + 1
                     ELSE handled[a]]
    /\ health_wake' = now + (IF fault = 0 THEN HealthInterval ELSE Backoff)
    /\ LET failure == IF fault = 0 THEN "none" ELSE "loop"
       IN  /\ \E failing \in HookFailures :
                 /\ \A a \in failing : Reached(a, fault) /\ IsStale(agent_health[a], now)
                 /\ ran' = [Ran("agent_health", failure) EXCEPT
                               !.handling = HandleStaleAgents(1, fault, failing),
                               !.hook_failed = failing]
           /\ loops' = [loops EXCEPT !["agent_health"] = AfterIteration(failure)]
    /\ UNCHANGED <<agent_health, started, heartbeats, resource_limits>>
    /\ UNCHANGED <<now, ehtables, utilvars, logvars, rotvars>>

\* Time passes until the health loop's sleep ends, or until one second before.
HealthTick(early) ==
    /\ started = "monitoring"
    /\ now < health_wake
    /\ now' = IF early /\ now < health_wake - 1 THEN health_wake - 1 ELSE health_wake
    /\ UNCHANGED <<ehtables, logvars, supvars>>

NextHealth ==
    \/ \E db_ok \in BOOLEAN : InitializeSystem(db_ok)
    \/ \E a \in Heartbeaters : Heartbeat(a)
    \/ \E f \in FaultPoints : MonitorAgentHealth(f)
    \/ \E early \in BOOLEAN : HealthTick(early)

SpecHealth == InitHealth /\ [][NextHealth]_vars

(***************************************************************************)
(* The health loop of a supervisor that has been up for a minute or for a  *)
(* day: some agents sent their last heartbeat when monitoring began, at    *)
(* time 0, and the loop is about to run an iteration.  The counters of the *)
(* run start at 0 here.                                                    *)
(***************************************************************************)
Uptimes ==
    {StaleAfter, StaleAfter + 1,
     SecondsPerDay, SecondsPerDay + StaleAfter, SecondsPerDay + StaleAfter + 1}

InitStale ==
    /\ now \in Uptimes
    /\ error_counts = EmptyDict
    /\ recovery_procedures = EmptyDict
    /\ registered = [k \in Kinds |-> "none"]
    /\ active_recoveries = EmptyDict
    /\ call = [w \in Workers |-> IdleCall]
    /\ last = NoReturn
    /\ invocations = [k \in Kinds |-> <<>>]
    /\ reports = 0
    /\ occurrences = [k \in Kinds |-> 0]
    /\ LoggingStarted
    /\ NoWrapperCalled
    /\ LogDirCreated
    /\ log_buffer = <<>>
    /\ logged = 0
    /\ \E heard \in SUBSET Heartbeaters :
          agent_health = [a \in AgentNames |->
                            IF a \in heard
                            THEN [InitialHealth EXCEPT !.status = "active",
                                                       !.last_heartbeat = 0]
                            ELSE InitialHealth]
    /\ started = "monitoring"
    /\ health_wake = now
    /\ handled = [a \in AgentNames |-> 0]
    /\ checks = 0
    /\ heartbeats = 0
    /\ loops = [l \in LoopNames |-> "sleeping"]
    /\ ran = NoRun
    /\ resource_limits = RESOURCE_LIMITS

NextStale ==
    \/ \E a \in Heartbeaters : Heartbeat(a)
    \/ \E f \in FaultPoints : MonitorAgentHealth(f)
    \/ \E early \in BOOLEAN : HealthTick(early)

SpecStale == InitStale /\ [][NextStale]_vars

(***************************************************************************)
(* The resource loops: SupervisorAgent._monitor_system_resources and       *)
(* SystemMonitor._monitor_system_metrics with _check_resource_limits.      *)
(***************************************************************************)
\* SupervisorAgent._get_system_metrics, in the order of its dict literal
SystemMetricOrder == <<"cpu_usage", "memory_usage", "storage_usage">>

GetSystemMetrics == [cpu_usage |-> 0, memory_usage |-> 0, storage_usage |-> 0]

\* `.get(f'max_{metric}', 90)`
DefaultThreshold == 90

(***************************************************************************)
(* Lines 106-111 from the i-th metric on: the metrics published and        *)
(* whether the loop body raised.  SupervisorAgent defines no               *)
(* _handle_resource_warning, so a value above its threshold raises         *)
(* AttributeError; `fault` is the position whose log_metric raises.        *)
(***************************************************************************)
RECURSIVE CheckThresholds(_, _, _, _)
CheckThresholds(values, limits, i, fault) ==
    IF i > Len(SystemMetricOrder) THEN [metrics |-> {}, raised |-> FALSE]
    ELSE LET metric == SystemMetricOrder[i]
             threshold == Get(limits, "max_" \o metric, DefaultThreshold)
         IN  IF values[metric] > threshold \/ fault = i
             THEN [metrics |-> {}, raised |-> TRUE]
             ELSE LET rest == CheckThresholds(values, limits, i + 1, fault)
                  IN  [metrics |-> {"system_" \o metric} \cup rest.metrics,
                       raised |-> rest.raised]

\* config.logging_config.log_event and log_metric write to the logging
\* module's handlers; LoggingSystem.log_buffer is not among them.
LogEvent_Buffered(buffer, events) == buffer \o <<0>>

LogEvent(buffer, events) == buffer

Running(l) == loops[l] = "sleeping"

MonitorSystemResources(fault) ==
    /\ started = "monitoring"
    /\ Running("system_resources")
    /\ LET r == CheckThresholds(GetSystemMetrics, resource_limits, 1, fault)
           failure == IF r.raised THEN "loop" ELSE "none"
       IN  /\ ran' = [Ran("system_resources", failure) EXCEPT !.metrics = r.metrics]
           /\ loops' = [loops EXCEPT !["system_resources"] = AfterIteration(failure)]
           /\ log_buffer' = LogEvent(log_buffer, r.metrics)
    /\ UNCHANGED <<es_open, pub, timer, shut, sup, db_open, logged, publishes,
                   es_bulks, backup_file, backup_failed>>
    /\ UNCHANGED <<now, ehtables, utilvars, healthvars, resource_limits, rotvars>>

\* The resources SystemMonitor samples, in the order it samples them
Resources == <<"cpu", "memory", "disk">>

\* `limit_key = f'max_{resource}_usage'`
LimitKey_Storage(resource) ==
    IF resource = "disk" THEN "max_storage_usage" ELSE "max_" \o resource \o "_usage"

LimitKey(resource) == "max_" \o resource \o "_usage"

\* SystemMonitor._check_resource_limits: the resources it warns about
CheckResourceLimits(sample, limits) ==
    {Resources[i] : i \in {j \in 1..Len(Resources) :
        /\ LimitKey(Resources[j]) \in DOMAIN limits
        /\ sample[Resources[j]] > limits[LimitKey(Resources[j])]}}

\* A storage limit set through MAX_STORAGE_USAGE, as a percentage
StorageLimitSet == 90

LimitChoices ==
    {RESOURCE_LIMITS, [RESOURCE_LIMITS EXCEPT !.max_storage_usage = StorageLimitSet]}

\* Samples at and just above each limit
Samples ==
    [cpu : {RESOURCE_LIMITS.max_cpu_usage, RESOURCE_LIMITS.max_cpu_usage + 1},
     memory : {RESOURCE_LIMITS.max_memory_usage, RESOURCE_LIMITS.max_memory_usage + 1},
     disk : {StorageLimitSet, StorageLimitSet + 1}]

\* An iteration that raises does so in the sampler call at position `fault`
\* (0: none does), after the metrics of the earlier resources were published.
SamplerFaults == 0..Len(Resources)

MonitorSystemMetrics(sample, fault) ==
    /\ Running("system_metrics")
    /\ LET failure == IF fault = 0 THEN "none" ELSE "loop"
           published == {Resources[i] \o "_usage" :
                           i \in {j \in 1..Len(Resources) : fault = 0 \/ j < fault}}
           warned == IF fault = 0
                     THEN CheckResourceLimits(sample, resource_limits)
                     ELSE {}
       IN  /\ ran' = [Ran("system_metrics", failure) EXCEPT !.metrics = published,
                                                              !.warnings = warned]
           /\ loops' = [loops EXCEPT !["system_metrics"] = AfterIteration(failure)]
           /\ log_buffer' = LogEvent(log_buffer, warned)
    /\ UNCHANGED <<es_open, pub, timer, shut, sup, db_open, logged, publishes,
                   es_bulks, backup_file, backup_failed>>
    /\ UNCHANGED <<now, ehtables, utilvars, healthvars, resource_limits, rotvars>>

(***************************************************************************)
(* The other loops of SupervisorAgent and SystemMonitor.  They read no     *)
(* shared table; each iteration ends in the sleep its outcome selects.     *)
(***************************************************************************)
Failures == {"none", "helper", "loop"}

\* _monitor_data_pipeline starts its iteration and awaits health_check(),
\* whose database pings carry no timeout.
MonitorDataPipeline ==
    /\ started = "monitoring"
    /\ Running("data_pipeline")
    /\ loops' = [loops EXCEPT !["data_pipeline"] = "waiting"]
    /\ UNCHANGED <<ran, resource_limits>>
    /\ UNCHANGED <<now, ehtables, utilvars, logvars, healthvars, rotvars>>

\* health_check() comes back: it catches and logs a failed ping itself
\* ("helper"); what the rest of the iteration raises reaches the loop.
HealthCheckReturns(failure) ==
    /\ loops["data_pipeline"] = "waiting"
    /\ ran' = Ran("data_pipeline", failure)
    /\ loops' = [loops EXCEPT !["data_pipeline"] = AfterIteration(failure)]
    /\ UNCHANGED resource_limits
    /\ UNCHANGED <<now, ehtables, utilvars, logvars, healthvars, rotvars>>

MonitorPerformance(raises) ==
    /\ started = "monitoring"
    /\ Running("performance")
    /\ LET failure == IF raises THEN "loop" ELSE "none"
       IN  /\ ran' = Ran("performance", failure)
           /\ loops' = [loops EXCEPT !["performance"] = AfterIteration(failure)]
    /\ UNCHANGED resource_limits
    /\ UNCHANGED <<now, ehtables, utilvars, logvars, healthvars, rotvars>>

\* SystemMonitor._push_metrics: push_to_gateway returns or raises
PushMetrics(raises) ==
    /\ Running("push_metrics")
    /\ LET failure == IF raises THEN "loop" ELSE "none"
       IN  /\ ran' = Ran("push_metrics", failure)
           /\ loops' = [loops EXCEPT !["push_metrics"] = AfterIteration(failure)]
    /\ UNCHANGED resource_limits
    /\ UNCHANGED <<now, ehtables, utilvars, logvars, healthvars, rotvars>>

(***************************************************************************)
(* LoggingSystem: log files and remote indices (_monitor_log_files,        *)
(* _rotate_log_file, _cleanup_old_logs, _cleanup_old_indices).             *)
(*                                                                         *)
(* One log file x.log is followed: index 0 is x.log, index i is x.log.i.   *)
(* A file is its content (0 when empty, else the number of the write that  *)
(* produced it) and its size in bytes.  Path.rename replaces an existing   *)
(* target, as on POSIX.                                                    *)
(***************************************************************************)
MaxWrites == 2          \* writes to the live log file in one run

backup_count == 5

max_log_size == 10485760

IndexRetention == 30

\* Path.rename(src -> dst)
Rename(fs, src, dst) ==
    [i \in ((DOMAIN fs) \ {src}) \cup {dst} |-> IF i = dst THEN fs[src] ELSE fs[i]]

\* Path.touch()
Touch(fs, i) == IF i \in DOMAIN fs THEN fs ELSE Put(fs, i, EmptyFile)

\* What a rotation can fail at: nothing (0), the rename of x.log.i (i), the
\* rename of x.log (backup_count) or the touch (backup_count + 1).
RotationFaults == 0..(backup_count + 1)

\* `for i in range(first, 0, -1)`: rename x.log.i to x.log.(i+1) if it exists
RECURSIVE ShiftBackups(_, _, _)
ShiftBackups(fs, i, fault) ==
    IF i = 0 THEN [files |-> fs, raised |-> FALSE]
    ELSE IF i \in DOMAIN fs
         THEN IF fault = i
              THEN [files |-> fs, raised |-> TRUE]
              ELSE ShiftBackups(Rename(fs, i, i + 1), i - 1, fault)
         ELSE ShiftBackups(fs, i - 1, fault)

\* Lines 195-200, after the backups were shifted
RotateCurrent(fs, fault) ==
    LET renames == 0 \in DOMAIN fs
        moved == IF renames THEN Rename(fs, 0, 1) ELSE fs
    IN  IF renames /\ fault = backup_count THEN [files |-> fs, raised |-> TRUE]
        ELSE IF fault = backup_count + 1 THEN [files |-> moved, raised |-> TRUE]
        ELSE [files |-> Touch(moved, 0), raised |-> FALSE]

\* LoggingSystem._rotate_log_file: the directory afterwards, and whether an
\* exception was caught (and logged) on the way
RotateLogFile_KeepsSixth(fs, fault) ==
    LET shifted == ShiftBackups(fs, backup_count, fault)
    IN  IF shifted.raised THEN shifted ELSE RotateCurrent(shifted.files, fault)

RotateLogFile(fs, fault) ==
    LET shifted == ShiftBackups(fs, backup_count - 1, fault)
    IN  IF shifted.raised THEN shifted ELSE RotateCurrent(shifted.files, fault)

\* `log_file.stat().st_size > self.max_log_size`
NeedsRotation(fs) == 0 \in DOMAIN fs /\ fs[0].size > max_log_size

\* The application's log handler appends to the live file.
WriteSizes == {max_log_size, max_log_size + 1}

WriteLog(size) ==
    /\ writes < MaxWrites
    /\ 0 \in DOMAIN files
    /\ writes' = writes + 1
    /\ files' = [files EXCEPT ![0] = [content |-> backup_count + writes + 1,
                                      size |-> size]]
    /\ UNCHANGED indices
    /\ UNCHANGED <<now, ehtables, utilvars, logvars, healthvars, loopvars>>

\* One iteration of _monitor_log_files.  stat() raising reaches the loop's
\* except clause; _rotate_log_file catches what its own calls raise.
MonitorLogFiles(stat_raises, fault) ==
    /\ Running("monitor_log_files")
    /\ fault # 0 => (~stat_raises /\ NeedsRotation(files))
    /\ LET rotated == IF ~stat_raises /\ NeedsRotation(files)
                      THEN RotateLogFile(files, fault)
                      ELSE [files |-> files, raised |-> FALSE]
           failure == IF stat_raises THEN "loop"
                      ELSE IF rotated.raised THEN "helper" ELSE "none"
       IN  /\ fault # 0 => rotated.raised
           /\ files' = rotated.files
           /\ ran' = Ran("monitor_log_files", failure)
           /\ loops' = [loops EXCEPT !["monitor_log_files"] = AfterIteration(failure)]
    /\ UNCHANGED <<indices, writes, resource_limits>>
    /\ UNCHANGED <<now, ehtables, utilvars, logvars, healthvars>>

\* `sorted(indices.items(), key=... ['creation_date'])`: the indices, each
\* known by its creation date, in ascending order
RECURSIVE SortByCreation(_)
SortByCreation(ix) ==
    IF ix = {} THEN <<>>
    ELSE LET first == CHOOSE d \in ix : \A e \in ix : d <= e
         IN  <<first>> \o SortByCreation(ix \ {first})

\* `sorted_indices[:-30]`
IndicesToDelete_First(sorted) ==
    SubSeq(sorted, 1, IF Len(sorted) > IndexRetention THEN IndexRetention ELSE Len(sorted))

IndicesToDelete(sorted) ==
    IF Len(sorted) > IndexRetention
    THEN SubSeq(sorted, 1, Len(sorted) - IndexRetention)
    ELSE <<>>

(***************************************************************************)
(* One iteration of _cleanup_old_logs.  "loop": the scan of the backup     *)
(* files raised; "helper": _cleanup_old_indices caught an exception after  *)
(* `deleted` of its deletions.  The deletions are issued one by one in the *)
(* order of the sorted list.                                               *)
(***************************************************************************)
CleanupOldLogs(failure, deleted) ==
    /\ Running("cleanup_old_logs")
    /\ LET indices_to_delete == IndicesToDelete(SortByCreation(indices))
           issued == CASE failure = "loop" -> <<>>
                       [] failure = "helper" -> SubSeq(indices_to_delete, 1, deleted)
                       [] failure = "none" -> indices_to_delete
       IN  /\ IF failure = "helper"
              THEN deleted = 0 \/ deleted < Len(indices_to_delete)
              ELSE deleted = 0
           /\ indices' = indices \ {issued[i] : i \in 1..Len(issued)}
           /\ ran' = [Ran("cleanup_old_logs", failure) EXCEPT !.deleted = issued]
    /\ files' = IF failure = "loop" THEN files
                ELSE [i \in {j \in DOMAIN files : j <= backup_count} |-> files[i]]
    /\ loops' = [loops EXCEPT !["cleanup_old_logs"] = AfterIteration(failure)]
    /\ UNCHANGED <<writes, resource_limits>>
    /\ UNCHANGED <<now, ehtables, utilvars, logvars, healthvars>>

\* A directory that holds x.log and its first n backups
Rotated(n) == [i \in 0..n |-> IF i = 0 THEN EmptyFile
                              ELSE [content |-> i, size |-> max_log_size + 1]]

InitialBackups == {0, backup_count}

InitialIndices == {IndexRetention - 1, IndexRetention + 2}

InitRot ==
    /\ ErrorHandlerConstructed
    /\ LoggingStarted
    /\ NoWrapperCalled
    /\ SupervisorConstructed
    /\ log_buffer = <<>>
    /\ logged = 0
    /\ writes = 0
    /\ \E n \in InitialBackups : files = Rotated(n)
    /\ \E n \in InitialIndices : indices = 1..n

NextRot ==
    \/ \E size \in WriteSizes : WriteLog(size)
    \/ \E stat_raises \in BOOLEAN, fault \in RotationFaults :
          MonitorLogFiles(stat_raises, fault)
    \/ \E failure \in Failures, deleted \in 0..1 : CleanupOldLogs(failure, deleted)

SpecRot == InitRot /\ [][NextRot]_vars

(***************************************************************************)
(* All monitoring loops together, with SupervisorAgent.shutdown, from the  *)
(* moment start() has initialised the system.  The tables the loops are    *)
(* not meant to touch start filled: reports counted, entries buffered,     *)
(* backups and remote indices present.  The environment may have set       *)
(* MAX_STORAGE_USAGE before the process started.  The clock stands still   *)
(* here, so the health loop, whose iterations are tied to it, runs its     *)
(* first iteration only; the other loops wake whenever they are asleep.    *)
(***************************************************************************)
InitLoops ==
    /\ InitErrorHandler
    /\ error_counts # EmptyDict
    /\ LoggingStarted
    /\ NoWrapperCalled
    /\ agent_health = InitHealthEntries(EmptyDict, 1)
    /\ started = "monitoring"
    /\ health_wake = 0
    /\ handled = [a \in AgentNames |-> 0]
    /\ checks = 0
    /\ heartbeats = 0
    /\ loops = [l \in LoopNames |-> "sleeping"]
    /\ ran = NoRun
    /\ resource_limits \in LimitChoices
    /\ log_buffer = <<1, 2>>
    /\ logged = 2
    /\ writes = 0
    /\ files = Rotated(backup_count)
    /\ indices = {1, 2}

NextLoops ==
    \/ \E f \in FaultPoints : MonitorAgentHealth(f)
    \/ \E f \in 0..Len(SystemMetricOrder) : MonitorSystemResources(f)
    \/ MonitorDataPipeline
    \/ \E failure \in Failures : HealthCheckReturns(failure)
    \/ \E raises \in BOOLEAN : MonitorPerformance(raises)
    \/ \E sample \in Samples, f \in SamplerFaults : MonitorSystemMetrics(sample, f)
    \/ \E raises \in BOOLEAN : PushMetrics(raises)
    \/ \E stat_raises \in BOOLEAN, fault \in RotationFaults :
          MonitorLogFiles(stat_raises, fault)
    \/ \E failure \in Failures, deleted \in 0..1 : CleanupOldLogs(failure, deleted)
    \/ \E closed \in BOOLEAN : SupervisorShutdown(closed)

SpecLoops == InitLoops /\ [][NextLoops]_vars

(***************************************************************************)
(* The event loop resumes a coroutine whose sleep has ended.  Nothing makes *)
(* a database answer a ping: health_check() sets no timeout.               *)
(***************************************************************************)
LoopsFairness ==
    /\ WF_vars(\E f \in FaultPoints : MonitorAgentHealth(f))
    /\ WF_vars(\E f \in 0..Len(SystemMetricOrder) : MonitorSystemResources(f))
    /\ WF_vars(MonitorDataPipeline)
    /\ WF_vars(\E raises \in BOOLEAN : MonitorPerformance(raises))
    /\ WF_vars(\E sample \in Samples, f \in SamplerFaults : MonitorSystemMetrics(sample, f))
    /\ WF_vars(\E raises \in BOOLEAN : PushMetrics(raises))
    /\ WF_vars(\E stat_raises \in BOOLEAN, fault \in RotationFaults :
                  MonitorLogFiles(stat_raises, fault))
    /\ WF_vars(\E failure \in Failures, deleted \in 0..1 : CleanupOldLogs(failure, deleted))

SpecLoopsFair == SpecLoops /\ LoopsFairness

(***************************************************************************)
(* utils.decorators.retry(max_retries, delay): one call of the wrapper.    *)
(* The wrapped function is awaited once per pass of                        *)
(* `for attempt in range(max_retries)`; between two calls the wrapper      *)
(* blocks in time.sleep(delay).  `calls` lists how the calls made so far   *)
(* ended, and a result names the call it comes from.                       *)
(***************************************************************************)
MaxRetries == 4         \* largest max_retries a wrapper is built with

RetryChoices == 0..MaxRetries

Delays == {0, 1}

\* How a call of the wrapped function can end: it returns, or it raises an
\* Exception subclass, or an exception outside Exception (task cancellation).
FuncOutcomes == {"returns", "ValueError", "KeyError", "CancelledError"}

\* `except Exception`
IsException(o) == o \in {"ValueError", "KeyError"}

\* Passes of `for attempt in range(max_retries)`
RangeLen(n) == IF n > 0 THEN n ELSE 0

\* `if attempt == max_retries - 1: raise`
LastAttempt(attempt, n) == attempt = n - 1

\* The wrapper is called: it awaits the first call of the function, or falls
\* out of an empty loop and returns None.
RetryCall(n, d) ==
    /\ retry.pc = "idle"
    /\ retry' = IF RangeLen(n) = 0
                THEN [NotCalled EXCEPT !.pc = "returned", !.max_retries = n, !.delay = d,
                                       !.result = [kind |-> "None", call |-> 0]]
                ELSE [NotCalled EXCEPT !.pc = "calling", !.max_retries = n, !.delay = d]
    /\ UNCHANGED <<now, ehtables, logvars, healthvars, loopvars, rotvars>>

\* The awaited call of the function comes back.
FuncCompletes(o) ==
    /\ retry.pc = "calling"
    /\ LET made == Append(retry.calls, o)
           from_call == [retry EXCEPT !.calls = made]
       IN  retry' =
              IF o = "returns"
              THEN [from_call EXCEPT !.pc = "returned",
                                     !.result = [kind |-> "value", call |-> Len(made)]]
              ELSE IF ~IsException(o) \/ LastAttempt(retry.attempt, retry.max_retries)
              THEN [from_call EXCEPT !.pc = "raised",
                                     !.result = [kind |-> o, call |-> Len(made)]]
              ELSE IF retry.attempt + 1 < RangeLen(retry.max_retries)
              THEN [from_call EXCEPT !.attempt = @ + 1, !.slept = @ + retry.delay]
              ELSE [from_call EXCEPT !.pc = "returned",
                                     !.slept = @ + retry.delay,
                                     !.result = [kind |-> "None", call |-> 0]]
    /\ UNCHANGED <<now, ehtables, logvars, healthvars, loopvars, rotvars>>

InitRetry ==
    /\ ErrorHandlerConstructed
    /\ LoggingStarted
    /\ NoWrapperCalled
    /\ SupervisorConstructed
    /\ LogDirCreated
    /\ log_buffer = <<>>
    /\ logged = 0

NextRetry ==
    \/ \E n \in RetryChoices, d \in Delays : RetryCall(n, d)
    \/ \E o \in FuncOutcomes : FuncCompletes(o)

SpecRetry == InitRetry /\ [][NextRetry]_vars

(***************************************************************************)
(* Properties of the error handler                                         *)
(***************************************************************************)
WithinCooldown(k) ==
    k \in DOMAIN active_recoveries /\ now - active_recoveries[k] < Cooldown

\* The step is a handle_error call of worker w that returned (it did not
\* suspend in a recovery procedure), and it escalated.
EscalatedBy(w) == call'[w].pc = "idle" /\ last'.escalated

\* C1: for every kind, under every interleaving of handle_error calls, two
\* invocations of the kind's recovery procedure never start less than the
\* 300 s cooldown apart, whether or not the earlier one has come back.
C1_OncePerCooldown ==
    \A k \in Kinds :
        \A i \in 1..(Len(invocations[k]) - 1) :
            invocations[k][i + 1] - invocations[k][i] >= Cooldown

\* A second invocation for a kind has started while the first one, begun a
\* cooldown earlier, is still in flight.
C1_Witness ==
    \E k \in Kinds :
        /\ Len(invocations[k]) = 2
        /\ \A w \in Workers : call[w].pc = "recovering" /\ call[w].kind = k

\* C2: when the recovery procedure of a kind comes back with success the
\* kind's count is 0 on return of that report, and a report of a kind made
\* less than 300 s after the kind's last attempt invokes no procedure.
C2_ResetAndCooldown ==
    [][\A w \in Workers :
          /\ RecoveryReturn(w, "success")
                => Get(error_counts', call[w].kind, 0) = 0
          /\ \A k \in Kinds :
                (HandleError(w, k) /\ WithinCooldown(k))
                   => (invocations' = invocations /\ call'[w].pc = "idle")
      ]_vars

\* The first report of a registered kind recovered (count back to 0) and the
\* second, 299 s after the attempt, returned without invoking the procedure.
C2_Witness ==
    \E k \in Kinds :
        /\ k \in DOMAIN recovery_procedures
        /\ occurrences[k] = 2
        /\ Len(invocations[k]) = 1
        /\ now - invocations[k][1] = Cooldown - 1
        /\ Get(error_counts, k, 0) = 1
        /\ last.kind = k /\ last.evaluated /\ last.ret = "True"
        /\ \A w \in Workers : call[w].pc = "idle"

\* C3: a report of a kind that has no registered recovery procedure invokes
\* no procedure, increments the kind's count, and evaluates escalation
\* against the incremented count (it escalates exactly when that count has
\* reached the threshold of the kind's class).
C3_NoProcedureEscalates ==
    [][\A w \in Workers, k \in Kinds :
          (HandleError(w, k) /\ k \notin DOMAIN recovery_procedures)
             => /\ invocations' = invocations
                /\ call' = call
                /\ error_counts'[k] = Get(error_counts, k, 0) + 1
                /\ last'.kind = k
                /\ last'.evaluated
                /\ last'.escalated <=> (error_counts'[k] >= Threshold(k))
      ]_vars

\* A kind without a procedure has been reported, below and at its threshold.
C3_Witness ==
    /\ last.kind = Timeout
    /\ Timeout \notin DOMAIN recovery_procedures
    /\ invocations[Timeout] = <<>>
    /\ last.evaluated /\ last.escalated
    /\ Get(error_counts, Timeout, 0) = error_thresholds["warning"]

\* C4 as claimed: every report of a critical kind escalates, and a report of
\* a warning kind escalates exactly when it is the kind's 10th or a later
\* occurrence.
C4_Original ==
    [][\A w \in Workers, k \in Kinds :
          HandleError(w, k)
             => /\ Severity(k) = "critical" => EscalatedBy(w)
                /\ Severity(k) = "warning"
                      => (EscalatedBy(w) <=> occurrences'[k] >= 10)
      ]_vars

\* C4 amended: a report escalates exactly when it attempts no recovery and
\* the kind's count, after this report's increment, has reached the class
\* threshold: for a critical kind whenever no recovery is attempted, for a
\* warning kind when moreover the count is 10 or more.  The report leaves
\* the count at the incremented value (escalation does not reset it).
C4_EscalationByCount ==
    [][\A w \in Workers, k \in Kinds :
          HandleError(w, k)
             => LET attempted == invocations'[k] # invocations[k]
                IN  /\ Severity(k) = "critical"
                          => (EscalatedBy(w) <=> ~attempted)
                    /\ Severity(k) = "warning"
                          => (EscalatedBy(w) <=>
                                 (~attempted /\ error_counts'[k] >= 10))
                    /\ error_counts'[k] = Get(error_counts, k, 0) + 1
      ]_vars

\* The 11th counted report of a warning kind has escalated again.
C4_Witness ==
    /\ last.kind = Timeout
    /\ last.escalated
    /\ Get(error_counts, Timeout, 0) = 11
    /\ occurrences[Timeout] = 11

\* C5: handle_error never lets an exception out: every call returns True or
\* False; a recovery procedure that raises makes the call return False and
\* leaves the count as it was (a failed recovery).
C5_NeverRaises ==
    /\ [](last.ret \in {"none", "True", "False"})
    /\ [][\A w \in Workers :
             RecoveryReturn(w, "raise")
                => (last'.ret = "False" /\ error_counts' = error_counts)
         ]_vars

\* A recovery procedure has raised and the call has returned False with the
\* count still standing.
C5_Witness ==
    /\ last.outcome = "raise"
    /\ last.ret = "False"
    /\ Get(error_counts, last.kind, 0) > 0

\* A report that begins to await its recovery procedure in this step.
StartsRecovery(w) == call[w].pc = "idle" /\ call'[w].pc = "recovering"

\* C20: a registration replaces any earlier one for the kind, so the handler
\* holds exactly the procedure of the latest registration call for each kind
\* (none before the first), also when the call is made while a report of that
\* kind is awaiting the replaced procedure; and every report that attempts
\* recovery invokes the procedure of the latest registration made before it
\* began, never a replaced one.
C20_LastRegistrationWins ==
    [][/\ \A k \in Kinds :
             Get(recovery_procedures', k, "none") = registered'[k]
       /\ \A w \in Workers :
             StartsRecovery(w) => call'[w].proc = registered[call'[w].kind]]_vars

\* A kind's procedure was replaced while a report was awaiting it, and a later
\* report of the kind is awaiting the new one.
C20_Witness ==
    \E k \in Kinds, w1, w2 \in Workers :
        /\ call[w1].pc = "recovering" /\ call[w1].kind = k /\ call[w1].proc = "p1"
        /\ call[w2].pc = "recovering" /\ call[w2].kind = k /\ call[w2].proc = "p2"
        /\ registered[k] = "p2"

\* C21: the count of a kind changes only by +1 in a report of that kind and
\* by a reset to 0 when a recovery of that kind comes back with success; no
\* other step, the pattern-monitoring loop included, changes it.
C21_CountChangesOnlyByReportOrRecovery ==
    [][\A k \in Kinds :
          Get(error_counts', k, 0) # Get(error_counts, k, 0)
             => \/ /\ \E w \in Workers : HandleError(w, k)
                   /\ Get(error_counts', k, 0) = Get(error_counts, k, 0) + 1
                \/ /\ \E w \in Workers :
                         RecoveryReturn(w, "success") /\ call[w].kind = k
                   /\ Get(error_counts', k, 0) = 0
      ]_vars

\* C22: no increment is lost: for a kind for which no recovery procedure was
\* ever registered, once two or more reports were made by the workers in
\* this run, the count of the kind equals the number of reports made of it.
C22_NoLostIncrement ==
    \A k \in Kinds :
        (registered[k] = "none" /\ reports >= 2)
           => Get(error_counts, k, 0) = occurrences[k]

\* C25: a report whose recovery attempt fails (the procedure returns falsy
\* or raises) counts the report when it starts and evaluates no escalation
\* then; when the procedure comes back the count is left as it stands, not
\* reset, escalation is still not evaluated, and the call returns False.
C25_FailedRecoveryFrame ==
    [][\A w \in Workers :
          /\ StartsRecovery(w)
                => /\ Get(error_counts', call'[w].kind, 0)
                         = Get(error_counts, call'[w].kind, 0) + 1
                   /\ last' = last
          /\ \A o \in {"failure", "raise"} :
                RecoveryReturn(w, o)
                   => /\ error_counts' = error_counts
                      /\ last'.kind = call[w].kind
                      /\ last'.attempted
                      /\ ~last'.evaluated
                      /\ ~last'.escalated
                      /\ last'.ret = "False"
      ]_vars

\* A recovery procedure returned falsy for a kind whose count stands at its
\* threshold: the call returned False, nothing was escalated, and the count
\* is still there.
C25_Witness ==
    /\ last.outcome = "failure"
    /\ last.ret = "False"
    /\ ~last.evaluated
    /\ Get(error_counts, last.kind, 0) >= Threshold(last.kind)
    /\ Get(error_counts, last.kind, 0) = occurrences[last.kind]

\* Two letters that differ at most in case
SameLetter(c, d) ==
    c = d \/ \E i \in 1..Len(UpperCase) : {c, d} = {UpperCase[i], LowerCase[i]}

\* The name has the word somewhere in it, in any mix of letter cases
HasWord(word, name) ==
    \E i \in 0..(Len(name) - Len(word)) :
        \A j \in 1..Len(word) : SameLetter(name[i + j], word[j])

\* C23: a kind name is critical if it contains "critical" in any letter
\* case, otherwise error if it contains "error" in any letter case, otherwise
\* warning (a name with both words is critical); and escalation is decided
\* against the threshold configured for that class: 1, 5 or 10.
C23_SeverityClasses ==
    [][\A name \in KindNames :
          ShouldEscalateCall(name) =>
             LET critical == HasWord(<<"c","r","i","t","i","c","a","l">>, name)
                 error == HasWord(<<"e","r","r","o","r">>, name)
                 count == Get(error_counts, name, 0)
             IN  /\ Severity(name) = IF critical THEN "critical"
                                     ELSE IF error THEN "error" ELSE "warning"
                 /\ last'.escalated <=>
                       count >= (IF critical THEN 1 ELSE IF error THEN 5 ELSE 10)
      ]_vars

\* A name with both words, "error" first and in capitals, was evaluated at
\* a count of 1 and escalated as critical.
C23_Witness ==
    /\ last.kind = <<"E","r","r","o","r","C","r","i","t","i","c","a","l">>
    /\ last.evaluated
    /\ last.escalated
    /\ Get(error_counts, last.kind, 0) = 1

(***************************************************************************)
(* Properties of the log publisher                                         *)
(***************************************************************************)
Entries(seq) == {seq[i] : i \in 1..Len(seq)}

\* Entries contained in some bulk write the remote sink accepted.
Accepted == UNION {Entries(es_bulks[i]) : i \in 1..Len(es_bulks)}

\* Entries delivered to the remote sink or to the backup file.
Delivered == Accepted \cup Entries(backup_file)

RemoteCopies(e) ==
    Cardinality({i \in 1..Len(es_bulks) : e \in Entries(es_bulks[i])})

BackupCopies(file, e) == Cardinality({i \in 1..Len(file) : file[i] = e})

\* C6: as long as only log() calls and the timer flush and the size-triggered
\* flushes run (no shutdown) and the backup file takes every write, every
\* entry that was appended is still in the buffer or is contained in an
\* accepted bulk write or in the backup file: none leaves the buffer
\* undelivered.
C6_AtLeastOnce ==
    (shut.pc = "idle" /\ ~backup_failed)
       => \A e \in 1..logged : e \in Entries(log_buffer) \/ e \in Delivered

\* C7: as long as only log() calls and the timer flush and the size-triggered
\* flushes run (no shutdown), no entry is contained in more than one bulk
\* write that the remote sink accepted.
C7_AtMostOnceRemote ==
    shut.pc = "idle" => \A e \in 1..logged : RemoteCopies(e) <= 1

\* C8: when the bulk write of a flush (timer or size-triggered, no shutdown
\* running) fails and the backup file takes the write, every entry that flush
\* had taken from the buffer is in the backup file exactly once afterwards and
\* the buffer is empty.
C8_BackupExactlyOnce ==
    [][shut.pc = "idle" =>
          /\ \A w \in Workers :
                LogBulkReturn(w, "raise", "ok")
                   => /\ \A e \in Entries(pub[w].actions) :
                            BackupCopies(backup_file', e) = 1
                      /\ log_buffer' = <<>>
          /\ TimerBulkReturn("raise", "ok")
                => /\ \A e \in Entries(timer.actions) :
                         BackupCopies(backup_file', e) = 1
                   /\ log_buffer' = <<>>
      ]_vars

\* C9: a log() call that brings the buffer to buffer_size (100) entries or
\* more sends the bulk write of the whole buffer before it returns, whatever
\* the timer loop is doing, and sends none below that size; when the timer's
\* sleep ends on a non-empty buffer the loop sends the bulk write of the whole
\* buffer, whatever its size.
C9_FlushTriggers ==
    [][/\ \A w \in Workers :
             Log(w) => IF Len(log_buffer') >= buffer_size
                       THEN pub'[w] = [pc |-> "bulk", actions |-> log_buffer']
                       ELSE pub'[w].pc = "idle"
       /\ (TimerFire /\ log_buffer # <<>>)
             => timer' = [pc |-> "bulk", actions |-> log_buffer]
      ]_vars

\* The timer has sent a flush of fewer than 100 entries and a log() call has
\* sent one of exactly 100.
C9_Witness ==
    /\ timer.pc = "bulk"
    /\ Len(timer.actions) \in 1..(buffer_size - 1)
    /\ \E w \in Workers :
          pub[w].pc = "bulk" /\ Len(pub[w].actions) = buffer_size

\* C10: when a shutdown() returns, every entry that was in the buffer when it
\* was called has been flushed (it is in an accepted bulk write or in the
\* backup file), and the sink connection was still open when that flush was
\* completed.  Stated for the supervisor's shutdown() and for
\* LoggingSystem.shutdown() (there granting that the backup file takes the
\* write).
C10_ShutdownFlushes ==
    [][/\ SupervisorShutdown(TRUE) => Entries(log_buffer) \subseteq Delivered'
       /\ \A o \in BulkOutcomes :
             LoggingShutdownBulkReturn(o, "ok")
                => (es_open /\ Entries(log_buffer) \subseteq Delivered')
      ]_vars

\* C28: the in-memory log buffer never holds more than buffer_size (100)
\* entries, also while a flush is waiting for the remote sink and further
\* log() calls arrive.
C28_BufferBounded == Len(log_buffer) <= 100

(***************************************************************************)
(* Properties of the agent-health table                                    *)
(***************************************************************************)
\* C12: an agent that sent a heartbeat and then stays silent for more than
\* 60 s is marked failed when the health check detects it, and is passed to
\* failure handling once for that silence, not again on later checks.
C12_FailedOncePerDetection ==
    \A a \in DOMAIN agent_health :
        handled[a] >= 1 =>
            /\ agent_health[a].status = "failed"
            /\ handled[a] = 1

\* C13: an agent that never sent a heartbeat is never passed to failure
\* handling and stays inactive, however many health checks have run.
C13_NeverHeartbeatedStaysInactive ==
    \A a \in DOMAIN agent_health :
        agent_health[a].last_heartbeat = None =>
            /\ handled[a] = 0
            /\ agent_health[a].status = "inactive"

\* Four checks have run over more than 60 s, another agent has been passed to
\* failure handling, and an agent without any heartbeat is still untouched.
C13_Witness ==
    /\ checks >= 4
    /\ now > StaleAfter
    /\ \E a, b \in DOMAIN agent_health :
          /\ agent_health[a].last_heartbeat = None
          /\ handled[a] = 0
          /\ handled[b] >= 1

C26_StaleIffOverSixtySeconds ==
    [][MonitorAgentHealth(0) =>
          \A a \in AgentNames :
             agent_health[a].last_heartbeat # None =>
                (handled'[a] = handled[a] + 1
                    <=> now - agent_health[a].last_heartbeat > 60)
      ]_vars

\* What one iteration did for agent a
HandlingOf(run, a) ==
    LET ForAgent(e) == e.agent = a
    IN  SelectSeq(run.handling, ForAgent)

\* C27: failure handling for an agent logs an agent_failure event, then
\* calls the recovery hook, once, and then escalates the issue exactly when
\* the hook reported failure; nothing it does raises into the health loop,
\* so every stale agent the cycle reaches is handled, also after an agent
\* whose recovery failed, and the cycle fails only where the loop's own
\* metric logging raises.
C27_FailureHandling ==
    [][\A f \in FaultPoints :
          MonitorAgentHealth(f) =>
             /\ \A a \in AgentNames :
                   LET did == HandlingOf(ran', a)
                   IN  IF Reached(a, f) /\ IsStale(agent_health[a], now)
                       THEN /\ handled'[a] = handled[a] + 1
                            /\ Len(did) >= 2
                            /\ did[1].did = "agent_failure"
                            /\ did[2].did = "recover_agent"
                            /\ Len(did) = (IF a \in ran'.hook_failed THEN 3 ELSE 2)
                            /\ Len(did) = 3 => did[3].did = "issue_escalation"
                       ELSE did = <<>> /\ handled'[a] = handled[a]
             /\ ran'.failure = (IF f = 0 THEN "none" ELSE "loop")
      ]_vars

\* A cycle handled two stale agents: the recovery of the first failed and
\* was escalated, and the second was still handled, without escalation.
C27_Witness ==
    /\ ran.loop = "agent_health"
    /\ ran.failure = "none"
    /\ ran.hook_failed = {"validation"}
    /\ Len(ran.handling) = 5
    /\ ran.handling[3] = [agent |-> "validation", did |-> "issue_escalation"]
    /\ ran.handling[4] = [agent |-> "data_cleaning", did |-> "agent_failure"]

(***************************************************************************)
(* Properties of the log files                                             *)
(***************************************************************************)
\* An iteration of the file monitor that rotates x.log and raises nothing
CompletesRotation == MonitorLogFiles(FALSE, 0) /\ NeedsRotation(files)

\* C15: a rotation of a log file that has its 5 numbered backups leaves in
\* x.log.(i+1) what x.log.i held, for i = 1..4, and in x.log.1 what x.log
\* held; what x.log.5 held is gone; x.log exists and is empty and there is no
\* x.log.6.  Whatever rotations have run, no backup numbered above 5 exists.
C15_RotationShifts ==
    [][/\ (CompletesRotation /\ (1..backup_count) \subseteq DOMAIN files) =>
             /\ \A i \in 1..(backup_count - 1) : files'[i + 1] = files[i]
             /\ files'[1] = files[0]
             /\ \A i \in DOMAIN files' : files'[i].content # files[backup_count].content
             /\ files'[0] = EmptyFile
             /\ DOMAIN files' = 0..backup_count
       /\ \A i \in DOMAIN files' : i <= backup_count]_vars

\* Five backups existed, x.log was written past the size limit and rotated:
\* its content is in x.log.1 and the former x.log.4 is in x.log.5.
C15_Witness ==
    /\ DOMAIN files = 0..backup_count
    /\ files[0] = EmptyFile
    /\ files[1].content = backup_count + 1
    /\ files[1].size > max_log_size
    /\ files[backup_count].content = backup_count - 1

C11_LoopsExitAfterShutdown ==
    (sup # "running") ~> (\A l \in LoopNames : loops[l] = "exited")

(***************************************************************************)
(* Properties of the retry decorator                                       *)
(***************************************************************************)
\* C30: when a call of a function wrapped by retry(max_retries = n, delay)
\* is over, the function has been called at least once and at most n times,
\* no call follows one that succeeded, a success is what the wrapper returns,
\* and when all n calls raised the wrapper raises the exception of the n-th;
\* for every n, 0 included.
C30_RetryContract ==
    retry.pc \in {"returned", "raised"} =>
        LET made == Len(retry.calls)
        IN  /\ made >= 1
            /\ made <= retry.max_retries
            /\ \A i \in 1..(made - 1) : retry.calls[i] # "returns"
            /\ retry.pc = "returned" =>
                  /\ retry.calls[made] = "returns"
                  /\ retry.result = [kind |-> "value", call |-> made]
            /\ (made = retry.max_retries /\ retry.calls[made] # "returns") =>
                  /\ retry.pc = "raised"
                  /\ retry.result = [kind |-> retry.calls[made], call |-> made]

(***************************************************************************)
(* Properties of start()                                                   *)
(***************************************************************************)
\* `await asyncio.gather(*monitoring_tasks)` in _start_monitoring: start()
\* goes on to log supervisor_started and to return once every coroutine it
\* gathered has ended.
SupervisorLoops == {"agent_health", "system_resources", "data_pipeline", "performance"}

StartReturned ==
    /\ started = "monitoring"
    /\ \A l \in SupervisorLoops : loops[l] = "exited"

\* C29: after a successful initialization start() eventually returns to its
\* caller, having logged supervisor_started.
C29_StartReturns ==
    (started = "monitoring") ~> StartReturned

\* C16 as stated: an iteration in which something failed has logged the
\* failure, leaves its loop running, and the loop sleeps 5 seconds before the
\* next iteration.
C16_Original ==
    ran.failure # "none" =>
        /\ ran.logged
        /\ loops[ran.loop] # "exited"
        /\ ran.slept = 5

\* C16, amended: a failure in an iteration never ends the loop and is logged.
\* When it reaches the loop's own handler the loop sleeps 5 seconds before the
\* next iteration, 3600 seconds in the log-cleanup loop; when a method the
\* iteration called caught it, the iteration completes and the loop sleeps
\* its regular interval.
C16_FailureBackoff ==
    /\ ran.failure # "none" => (ran.logged /\ loops[ran.loop] # "exited")
    /\ ran.failure = "loop" =>
          ran.slept = IF ran.loop = "cleanup_old_logs" THEN 3600 ELSE 5
    /\ ran.failure = "helper" =>
          ran.slept = CASE ran.loop = "data_pipeline" -> 300
                        [] ran.loop = "monitor_log_files" -> 300
                        [] ran.loop = "cleanup_old_logs" -> 86400

\* An iteration of the log-cleanup loop raised into the loop's handler, and
\* every loop is still running.
C16_Witness ==
    /\ ran.loop = "cleanup_old_logs"
    /\ ran.failure = "loop"
    /\ \A l \in LoopNames : loops[l] # "exited"

\* C17: every iteration reaches its sleep, also when the call it is waiting
\* in is never answered: a loop that is waiting in an external call is
\* eventually asleep again.
C17_IterationsReachSleep ==
    \A l \in LoopNames : (loops[l] = "waiting") ~> (loops[l] = "sleeping")

\* The limit configured for each sampled resource
ConfiguredLimit(resource) ==
    CASE resource = "cpu" -> resource_limits.max_cpu_usage
      [] resource = "memory" -> resource_limits.max_memory_usage
      [] resource = "disk" -> resource_limits.max_storage_usage

\* C18: an iteration of a resource check publishes a metric for each
\* resource it sampled and emits a resource warning for exactly the sampled
\* resources whose value is above the configured limit, in every iteration.
C18_EveryBreachWarns ==
    [][/\ \A sample \in Samples :
             MonitorSystemMetrics(sample, 0) =>
                /\ ran'.metrics = {"cpu_usage", "memory_usage", "disk_usage"}
                /\ ran'.warnings =
                      {Resources[i] : i \in {j \in 1..Len(Resources) :
                          sample[Resources[j]] > ConfiguredLimit(Resources[j])}}
       /\ MonitorSystemResources(0) =>
             ran'.metrics = {"system_cpu_usage", "system_memory_usage",
                             "system_storage_usage"}]_vars

\* A step of one of the two resource loops
ResourceIteration ==
    \/ \E sample \in Samples, f \in SamplerFaults : MonitorSystemMetrics(sample, f)
    \/ \E f \in 0..Len(SystemMetricOrder) : MonitorSystemResources(f)

\* C19: an iteration of a resource loop leaves the error counts, the
\* recovery registrations and cooldown timestamps, the agent-health table and
\* the log buffer as they were, and takes no remediation: it closes no
\* connection and touches no log file or remote index.
C19_ResourceLoopFrame ==
    [][ResourceIteration =>
          /\ UNCHANGED <<error_counts, recovery_procedures, active_recoveries>>
          /\ UNCHANGED <<agent_health, log_buffer>>
          /\ UNCHANGED <<es_open, db_open, sup, files, indices>>]_vars

\* A resource check has just warned about a breach while reports were
\* counted, health entries existed and entries were buffered.
C19_Witness ==
    /\ ran.loop = "system_metrics"
    /\ ran.warnings # {}
    /\ error_counts # EmptyDict
    /\ agent_health # EmptyDict
    /\ log_buffer # <<>>

====
